---- MODULE Spec2Model ----
(***************************************************************************)
(* Model of packages/cli/src/commands/pull.ts: `vercel pull`.              *)
(*                                                                         *)
(* main parses the arguments, resolves the project link (ensureLink),      *)
(* sets the team context, starts four envPull downloads, joins them with   *)
(* Promise.all, reduces the four result codes with `||`, and writes the    *)
(* project settings when the reduced code is 0.                            *)
(*                                                                         *)
(* Strings that the code only passes around are TLA+ strings.  A path is a *)
(* record [abs, segs]: whether it starts at the root, and its segments.    *)
(***************************************************************************)
EXTENDS Integers, Sequences, FiniteSets, TLC

(***************************************************************************)
(* Bounds of the model.                                                    *)
(***************************************************************************)
\* exit codes a failing link collaborator reports: 1..MaxLinkCode
MaxLinkCode == 3
\* result codes an env download returns: 0..MaxPullCode
MaxPullCode == 2

\* segments of a file name given with --env, in the runs that look at the
\* destinations only: at most MaxRootLen
MaxRootLen == 2

(***************************************************************************)
(* Values.                                                                 *)
(***************************************************************************)
\* a value that is absent (undefined in the source)
Undefined == "undefined"
\* the exit code of a run that has not returned yet
Running == -1
\* the reduced download code before pullAllEnvFiles has returned
NoResult == -1

\* ProjectEnvTarget of ../types
Development == "development"
Preview == "preview"
Production == "production"

\* the four downloads in the order pullAllEnvFiles starts them
Tasks == 1..4

Orgs ==
    { [type |-> "team", id |-> "T1"],
      [type |-> "user", id |-> "U1"] }

Projects == {"P1", "P2"}

LinkErrorCodes == 1..MaxLinkCode

PullCodes == 0..MaxPullCode

\* what getLinkedProject and setupAndLink resolve to
LinkStatuses ==
    [status : {"linked"}, org : Orgs, project : Projects]
      \cup { [status |-> "not_linked"] }
      \cup [status : {"error"}, exitCode : LinkErrorCodes]

(***************************************************************************)
(* Paths: path.join of Node.                                               *)
(***************************************************************************)
RECURSIVE NormalizeSegs(_, _, _)
\* path.normalize on segments: "." is dropped, ".." removes the segment
\* before it; at the root ".." is dropped, in a relative path a leading
\* ".." is kept
NormalizeSegs(abs, done, rest) ==
    IF rest = <<>> THEN done
    ELSE LET s == Head(rest)
             r == Tail(rest)
         IN  IF s = "." THEN NormalizeSegs(abs, done, r)
             ELSE IF s = ".."
                  THEN IF done # <<>> /\ done[Len(done)] # ".."
                       THEN NormalizeSegs(abs, SubSeq(done, 1, Len(done) - 1), r)
                       ELSE IF abs THEN NormalizeSegs(abs, done, r)
                            ELSE NormalizeSegs(abs, Append(done, s), r)
                  ELSE NormalizeSegs(abs, Append(done, s), r)

RECURSIVE ConcatSegs(_)
ConcatSegs(parts) ==
    IF parts = <<>> THEN <<>>
    ELSE Head(parts).segs \o ConcatSegs(Tail(parts))

\* join(a, b, ...): the parts are put one after the other and the result is
\* normalized; it is absolute when the first part is
Join(parts) ==
    LET abs == parts[1].abs
    IN  [abs |-> abs, segs |-> NormalizeSegs(abs, <<>>, ConcatSegs(parts))]

\* a relative one-segment path, such as '.vercel'
Name(s) == [abs |-> FALSE, segs |-> <<s>>]

\* the template without the suffix
WithSuffixDropped(root, suffix) == root

\* the template `${envFileRoot}${suffix}`: the suffix is added to the text of
\* the root, that is to its last segment
WithSuffix(root, suffix) ==
    IF root.segs = <<>>
    THEN [abs |-> root.abs, segs |-> <<suffix>>]
    ELSE [abs |-> root.abs,
          segs |-> [root.segs EXCEPT ![Len(root.segs)] = @ \o suffix]]

(***************************************************************************)
(* Inputs of a run.                                                        *)
(***************************************************************************)
\* process.cwd()
ProcessCwd == [abs |-> TRUE, segs |-> <<"home", "app">>]

\* the text '' as a path
EmptyPath == [abs |-> FALSE, segs |-> <<>>]

\* argv._ after the command name: nothing, or the path argument
PathArgs == { <<>>,
              << [abs |-> TRUE, segs |-> <<>>] >> }

\* argv['--env']: absent, or the file name given
EnvArgs == { <<>>,
             << [abs |-> FALSE, segs |-> <<"custom">>] >>,
             << [abs |-> FALSE, segs |-> <<"..", "shared">>] >> }

\* what getArgs does with client.argv: it throws, or it returns the parsed
\* arguments, with or without --help
ArgvInputs ==
    { [kind |-> "throws"] }
      \cup [kind : {"parsed"}, help : BOOLEAN, path : PathArgs,
            yes : BOOLEAN, env : EnvArgs]

\* client.config.currentTeam before the run
InitialTeam == "T0"

\* the content of the settings file before the run
NoSettings == [org |-> "none", project |-> "none"]

\* the team context of a request that has not been sent
NotSent == "not sent"

\* a collaborator that has not been called
NotCalled == [status |-> "none"]

VARIABLES
    pc,             \* where main is
    input,          \* what getArgs does with client.argv
    cwd,            \* main: const cwd
    yes,            \* main: const yes
    env,            \* main: const env
    lookup,         \* what getLinkedProject resolved to
    setup,          \* what setupAndLink resolved to
    setupOptions,   \* the options of the calls of setupAndLink, in order
    link,           \* main: const link, what ensureLink returned
    currentTeam,    \* client.config.currentTeam
    teamWrites,     \* number of assignments to client.config.currentTeam
    teamSeen,       \* per download: the team context its request was sent with
    dispatched,     \* the envPull calls made so far, in call order
    task,           \* per download: "idle", "fetching", "writing", "settled"
    code,           \* per download: the code its promise resolved to
    settled,        \* the downloads in the order their promises settled
    files,          \* the env files written
    pullResultCode, \* main: const pullResultCode
    settings,       \* the content of the settings file
    persistCalls,   \* number of calls of writeProjectSettings
    exitCode        \* what main returned, Running before

vars == << pc, input, cwd, yes, env, lookup, setup, setupOptions, link,
           currentTeam, teamWrites, teamSeen, dispatched, task, code, settled, files,
           pullResultCode, settings, persistCalls, exitCode >>

Init ==
    /\ pc = "parseArgs"
    /\ input \in ArgvInputs
    /\ cwd = EmptyPath
    /\ yes = FALSE
    /\ env = EmptyPath
    /\ lookup = NotCalled
    /\ setup = NotCalled
    /\ setupOptions = <<>>
    /\ link = [kind |-> "none"]
    /\ currentTeam = InitialTeam
    /\ teamWrites = 0
    /\ teamSeen = [i \in Tasks |-> NotSent]
    /\ dispatched = <<>>
    /\ task = [i \in Tasks |-> "idle"]
    /\ code = [i \in Tasks |-> NoResult]
    /\ settled = <<>>
    /\ files = {}
    /\ pullResultCode = NoResult
    /\ settings = NoSettings
    /\ persistCalls = 0
    /\ exitCode = Running

(***************************************************************************)
(* parseArgs and the head of main (lines 60-74, 173-181).                  *)
(***************************************************************************)
\* parseArgs that returns 0 after the usage text
parseArgsHelpZero(in) ==
    IF in.kind = "throws" THEN [kind |-> "number", value |-> 1]
    ELSE IF in.help THEN [kind |-> "number", value |-> 0]
    ELSE [kind |-> "argv", argv |-> in]

\* parseArgs that goes on after the usage text
parseArgsHelpFallsThrough(in) ==
    IF in.kind = "throws" THEN [kind |-> "number", value |-> 1]
    ELSE [kind |-> "argv", argv |-> in]

\* parseArgs: 1 when getArgs throws, 2 on --help, the arguments otherwise
parseArgs(in) ==
    IF in.kind = "throws" THEN [kind |-> "number", value |-> 1]
    ELSE IF in.help THEN [kind |-> "number", value |-> 2]
    ELSE [kind |-> "argv", argv |-> in]

\* argv._[1] || process.cwd()
CwdOf(in) ==
    IF Len(in.path) = 0 \/ in.path[1] = EmptyPath
    THEN ProcessCwd
    ELSE in.path[1]

\* argv['--env'] ?? '.env'
EnvOf(in) ==
    IF Len(in.env) = 0 THEN Name(".env") ELSE in.env[1]

\* main that starts the link resolution again after a failure
ReturnOrRetry(c) ==
    /\ exitCode' = c
    /\ pc' = IF c = 0 THEN "done" ELSE "getLinkedProject"

\* main returns: its promise resolves with c
Return(c) ==
    /\ exitCode' = c
    /\ pc' = "done"

Main ==
    /\ pc = "parseArgs"
    /\ IF parseArgs(input).kind = "number"
       THEN /\ Return(parseArgs(input).value)
            /\ UNCHANGED << cwd, yes, env >>
       ELSE /\ cwd' = CwdOf(parseArgs(input).argv)
            /\ yes' = parseArgs(input).argv.yes
            /\ env' = EnvOf(parseArgs(input).argv)
            /\ pc' = "getLinkedProject"
            /\ UNCHANGED exitCode
    /\ UNCHANGED << input, lookup, setup, setupOptions, link, currentTeam,
                    teamWrites, teamSeen, dispatched, task, code, settled, files,
                    pullResultCode, settings, persistCalls >>

(***************************************************************************)
(* ensureLink (lines 80-104) and main's test of its result (183-186).      *)
(***************************************************************************)
\* the test that sends every status but an error to the setup
NeedsSetupUnlessError(l) == l.status # "error"

\* the test that sends every status but linked to the setup
NeedsSetupUnlessLinked(l) == l.status # "linked"

\* line 86: the test that sends ensureLink to the interactive setup
NeedsSetup(l) == l.status = "not_linked"

\* ensureLink that reports an aborted setup as a failure
EnsureLinkResultAbortFails(l, abortable) ==
    IF abortable /\ l.status = "not_linked"
    THEN [kind |-> "number", value |-> 1]
    ELSE IF l.status = "error"
    THEN [kind |-> "number", value |-> l.exitCode]
    ELSE [kind |-> "link", org |-> l.org, project |-> l.project]

\* ensureLink that reports every error as the generic code 1
EnsureLinkResultGenericError(l, abortable) ==
    IF abortable /\ l.status = "not_linked"
    THEN [kind |-> "number", value |-> 0]
    ELSE IF l.status = "error"
    THEN [kind |-> "number", value |-> 1]
    ELSE [kind |-> "link", org |-> l.org, project |-> l.project]

\* lines 93-103: what ensureLink returns for the last status it holds;
\* abortable is true for the status that setupAndLink returned
EnsureLinkResult(l, abortable) ==
    IF abortable /\ l.status = "not_linked"
    THEN [kind |-> "number", value |-> 0]
    ELSE IF l.status = "error"
    THEN [kind |-> "number", value |-> l.exitCode]
    ELSE [kind |-> "link", org |-> l.org, project |-> l.project]

\* main that starts the downloads right after the link
LinkedPcSkipsTeam == "pullAllEnvFiles"

\* lines 188-192: with a link, main writes the team context before it calls
\* pullAllEnvFiles
LinkedPc == "setTeam"

\* lines 183-186: main returns a number that ensureLink returned, and goes
\* on with a link
AfterEnsureLink(r) ==
    /\ link' = r
    /\ IF r.kind = "number"
       THEN Return(r.value)
       ELSE /\ pc' = LinkedPc
            /\ UNCHANGED exitCode

EnsureLink ==
    /\ pc = "getLinkedProject"
    /\ \E l \in LinkStatuses :
         /\ lookup' = l
         /\ IF NeedsSetup(l)
            THEN /\ pc' = "setupAndLink"
                 /\ UNCHANGED << link, exitCode >>
            ELSE AfterEnsureLink(EnsureLinkResult(l, FALSE))
    /\ UNCHANGED << input, cwd, yes, env, setup, setupOptions, currentTeam,
                    teamWrites, teamSeen, dispatched, task, code, settled, files,
                    pullResultCode, settings, persistCalls >>

SetupAndLink ==
    /\ pc = "setupAndLink"
    /\ setupOptions' = Append(setupOptions,
                              [cwd |-> cwd, autoConfirm |-> yes,
                               successEmoji |-> "link", setupMsg |-> "Set up"])
    /\ \E l \in LinkStatuses :
         /\ setup' = l
         /\ AfterEnsureLink(EnsureLinkResult(l, TRUE))
    /\ UNCHANGED << input, cwd, yes, env, lookup, currentTeam, teamWrites, teamSeen,
                    dispatched, task, code, settled, files, pullResultCode,
                    settings, persistCalls >>

\* the team context of an organization taken for a team in every case
TeamOfAnyOrg(org) == org.id

\* line 190
TeamOf(org) == IF org.type = "team" THEN org.id ELSE Undefined

SetCurrentTeam ==
    /\ pc = "setTeam"
    /\ currentTeam' = TeamOf(link.org)
    /\ teamWrites' = teamWrites + 1
    /\ pc' = "pullAllEnvFiles"
    /\ UNCHANGED << input, cwd, yes, env, lookup, setup, setupOptions, link,
                    teamSeen, dispatched, task, code, settled, files, pullResultCode,
                    settings, persistCalls, exitCode >>

(***************************************************************************)
(* pullAllEnvFiles (lines 106-171).                                        *)
(***************************************************************************)
\* the four calls with the preview file under the production name
EnvPullCallsPreviewAsProduction(envFileRoot, project, dir) ==
    << [project |-> project, target |-> Development,
        dests |-> << Join(<<dir, envFileRoot>>) >>],
       [project |-> project, target |-> Development,
        dests |-> << Join(<<dir, Name(".vercel"),
                            WithSuffix(envFileRoot, ".development.local")>>) >>],
       [project |-> project, target |-> Preview,
        dests |-> << Join(<<dir, Name(".vercel"),
                            WithSuffix(envFileRoot, ".production.local")>>) >>],
       [project |-> project, target |-> Production,
        dests |-> << Join(<<dir, Name(".vercel"),
                            WithSuffix(envFileRoot, ".production.local")>>) >> ] >>

\* lines 113-150: the four envPull calls, in the order they are made; each
\* has the project, a target and the list of its destinations
EnvPullCalls(envFileRoot, project, dir) ==
    << [project |-> project, target |-> Development,
        dests |-> << Join(<<dir, envFileRoot>>) >>],
       [project |-> project, target |-> Development,
        dests |-> << Join(<<dir, Name(".vercel"),
                            WithSuffix(envFileRoot, ".development.local")>>) >>],
       [project |-> project, target |-> Preview,
        dests |-> << Join(<<dir, Name(".vercel"),
                            WithSuffix(envFileRoot, ".preview.local")>>) >>],
       [project |-> project, target |-> Production,
        dests |-> << Join(<<dir, Name(".vercel"),
                            WithSuffix(envFileRoot, ".production.local")>>) >> ] >>

\* a || b on numbers: a unless a is 0
Or(a, b) == IF a # 0 THEN a ELSE b

\* the reduction read from the last download to the first
AggregateLastWins(r) == Or(r[4], Or(r[3], Or(r[2], Or(r[1], 0))))

\* the reduction to a generic failure code
AggregateGeneric(r) == IF \E i \in Tasks : r[i] # 0 THEN 1 ELSE 0

\* lines 164-170
Aggregate(r) == Or(r[1], Or(r[2], Or(r[3], Or(r[4], 0))))

\* the values in the order the promises settled in
PromiseAllByArrival(codes, order) == [i \in Tasks |-> codes[order[i]]]

\* lines 152-162: Promise.all resolves to the values of the promises in the
\* order of the promises it was given, whatever the order they settled in
PromiseAll(codes, order) == [i \in Tasks |-> codes[i]]

\* pullAllEnvFiles that awaits each envPull before it makes the next call
SuspendedAtEachCall(p, d, t) ==
    \/ p = "awaitAll"
    \/ p = "pullAllEnvFiles" /\ d # <<>> /\ t[Len(d)] # "settled"

\* lines 113-162: pullAllEnvFiles is suspended, so that the downloads it
\* started can go on, at its one await only, that of Promise.all after the
\* fourth call; p is the place of main, d the calls made, t the downloads
Suspended(p, d, t) == p = "awaitAll"

\* a join that resolves as soon as one download has failed
JoinReadyOnFirstFailure(t, c) ==
    \/ \A i \in Tasks : t[i] = "settled"
    \/ \E i \in Tasks : t[i] = "settled" /\ c[i] # 0

\* a join that resolves as soon as one download has settled
JoinReadyOnFirstSettled(t, c) == \E i \in Tasks : t[i] = "settled"

\* a join that resolves only when all four downloads have succeeded
JoinReadyOnSuccessOnly(t, c) ==
    \A i \in Tasks : t[i] = "settled" /\ c[i] = 0

\* lines 157-162: Promise.all of promises that resolve is resolved when all
\* of them are
JoinReady(t, c) == \A i \in Tasks : t[i] = "settled"

\* lines 113-150: pullAllEnvFiles makes the next envPull call; envPull runs
\* up to its first await, the request for the variables.  After the fourth
\* call pullAllEnvFiles awaits Promise.all
CallEnvPull ==
    /\ pc = "pullAllEnvFiles"
    /\ ~Suspended(pc, dispatched, task)
    /\ LET i == Len(dispatched) + 1
       IN  /\ i \in Tasks
           /\ dispatched' = Append(dispatched,
                                   EnvPullCalls(env, link.project, cwd)[i])
           /\ task' = [task EXCEPT ![i] = "fetching"]
           /\ teamSeen' = [teamSeen EXCEPT ![i] = currentTeam]
           /\ pc' = IF i = 4 THEN "awaitAll" ELSE pc
    /\ UNCHANGED << input, cwd, yes, env, lookup, setup, setupOptions, link,
                    currentTeam, teamWrites, code, settled, files,
                    pullResultCode, settings, persistCalls, exitCode >>

\* the promise of download i resolves with c
Settle(i, c) ==
    /\ task' = [task EXCEPT ![i] = "settled"]
    /\ code' = [code EXCEPT ![i] = c]
    /\ settled' = Append(settled, i)

\* envPull: the request for the variables of the target returns; on a
\* failure envPull resolves with a nonzero code
EnvPullFetch(i) ==
    /\ Suspended(pc, dispatched, task)
    /\ task[i] = "fetching"
    /\ \/ /\ task' = [task EXCEPT ![i] = "writing"]
          /\ UNCHANGED << code, settled >>
       \/ \E c \in PullCodes \ {0} : Settle(i, c)
    /\ UNCHANGED << input, cwd, yes, env, lookup, setup, setupOptions, link,
                    currentTeam, teamWrites, teamSeen, dispatched, files,
                    pullResultCode, settings, persistCalls, exitCode, pc >>

\* envPull: the write of the destination file returns; envPull resolves
\* with 0 when the file is written and with a nonzero code otherwise
EnvPullWrite(i) ==
    /\ Suspended(pc, dispatched, task)
    /\ task[i] = "writing"
    /\ \E c \in PullCodes :
         /\ Settle(i, c)
         /\ files' = IF c = 0 THEN files \cup {dispatched[i].dests[1]}
                     ELSE files
    /\ UNCHANGED << input, cwd, yes, env, lookup, setup, setupOptions, link,
                    currentTeam, teamWrites, teamSeen, dispatched, pullResultCode,
                    settings, persistCalls, exitCode, pc >>

\* the test of a code above 1
PullFailedAboveOne(c) == c > 1

\* lines 192-195: main goes on to the settings only with a code of 0
PullFailed(c) == c # 0

\* lines 152-170 and 192-195: all four promises have settled, Promise.all
\* resolves, pullAllEnvFiles returns the reduced code and main tests it
PullAllEnvFilesReturn ==
    /\ pc = "awaitAll"
    /\ JoinReady(task, code)
    /\ LET c == Aggregate(PromiseAll(code, settled))
       IN  /\ pullResultCode' = c
           /\ IF PullFailed(c)
              THEN Return(c)
              ELSE /\ pc' = "writeProjectSettings"
                   /\ UNCHANGED exitCode
    /\ UNCHANGED << input, cwd, yes, env, lookup, setup, setupOptions, link,
                    currentTeam, teamWrites, teamSeen, dispatched, task, code, settled,
                    files, settings, persistCalls >>

\* the settings with the project and the organization exchanged
SettingsOfSwapped(l) == [org |-> l.project, project |-> l.org.id]

\* line 197: the identity that writeProjectSettings is given
SettingsOf(l) == [org |-> l.org.id, project |-> l.project]

\* line 197
WriteProjectSettings ==
    /\ pc = "writeProjectSettings"
    /\ settings' = SettingsOf(link)
    /\ persistCalls' = persistCalls + 1
    /\ pc' = "print"
    /\ UNCHANGED << input, cwd, yes, env, lookup, setup, setupOptions, link,
                    currentTeam, teamWrites, teamSeen, dispatched, task, code, settled,
                    files, pullResultCode, exitCode >>

\* lines 199-209
PrintAndReturn ==
    /\ pc = "print"
    /\ Return(0)
    /\ UNCHANGED << input, cwd, yes, env, lookup, setup, setupOptions, link,
                    currentTeam, teamWrites, teamSeen, dispatched, task, code, settled,
                    files, pullResultCode, settings, persistCalls >>

Next ==
    \/ Main
    \/ EnsureLink
    \/ SetupAndLink
    \/ SetCurrentTeam
    \/ CallEnvPull
    \/ \E i \in Tasks : EnvPullFetch(i)
    \/ \E i \in Tasks : EnvPullWrite(i)
    \/ PullAllEnvFilesReturn
    \/ WriteProjectSettings
    \/ PrintAndReturn

Spec == Init /\ [][Next]_vars

\* the event loop runs every continuation that is ready, and every
\* collaborator call returns: no step that can be taken is put off forever
Fairness ==
    /\ WF_vars(Main)
    /\ WF_vars(EnsureLink)
    /\ WF_vars(SetupAndLink)
    /\ WF_vars(SetCurrentTeam)
    /\ WF_vars(CallEnvPull)
    /\ \A i \in Tasks : WF_vars(EnvPullFetch(i))
    /\ \A i \in Tasks : WF_vars(EnvPullWrite(i))
    /\ WF_vars(PullAllEnvFilesReturn)
    /\ WF_vars(WriteProjectSettings)
    /\ WF_vars(PrintAndReturn)

\* the runs whose arguments give no path and no file name, which differ
\* from the others in the destinations only
FairInit ==
    /\ Init
    /\ input \in { [kind |-> "throws"] }
                   \cup [kind : {"parsed"}, help : BOOLEAN, path : {<<>>},
                         yes : {FALSE}, env : {<<>>}]

FairSpec == FairInit /\ [][Next]_vars /\ Fairness

(***************************************************************************)
(* The destinations alone: main from the call of pullAllEnvFiles on, for    *)
(* more working directories and file names than the runs above have.       *)
(***************************************************************************)
\* the segments that a file name given with --env is made of
RootSegs == {"..", ".", ".vercel", "x", "x.development.local"}

\* the file names given with --env, of at most MaxRootLen segments
PathRoots ==
    { [abs |-> FALSE, segs |-> q] :
        q \in UNION { [1..n -> RootSegs] : n \in 0..MaxRootLen } }

\* the path arguments
PathCwds ==
    { [abs |-> TRUE, segs |-> <<>>],
      [abs |-> TRUE, segs |-> <<".vercel">>],
      [abs |-> FALSE, segs |-> <<"site">>],
      [abs |-> FALSE, segs |-> <<"..">>],
      EmptyPath }

\* main at line 192, linked by the lookup, with a path argument and a file
\* name
PathInit ==
    /\ \E w \in PathCwds, r \in PathRoots :
         input = [kind |-> "parsed", help |-> FALSE, path |-> <<w>>,
                  yes |-> FALSE, env |-> <<r>>]
    /\ cwd = CwdOf(parseArgs(input).argv)
    /\ yes = parseArgs(input).argv.yes
    /\ env = EnvOf(parseArgs(input).argv)
    /\ lookup = [status |-> "linked",
                 org |-> [type |-> "team", id |-> "T1"], project |-> "P1"]
    /\ setup = NotCalled
    /\ setupOptions = <<>>
    /\ link = EnsureLinkResult(lookup, FALSE)
    /\ currentTeam = TeamOf(link.org)
    /\ teamWrites = 1
    /\ pc = "pullAllEnvFiles"
    /\ teamSeen = [i \in Tasks |-> NotSent]
    /\ dispatched = <<>>
    /\ task = [i \in Tasks |-> "idle"]
    /\ code = [i \in Tasks |-> NoResult]
    /\ settled = <<>>
    /\ files = {}
    /\ pullResultCode = NoResult
    /\ settings = NoSettings
    /\ persistCalls = 0
    /\ exitCode = Running

PathNext == CallEnvPull

PathSpec == PathInit /\ [][PathNext]_vars

(***************************************************************************)
(* Properties.                                                             *)
(***************************************************************************)
\* pullAllEnvFiles has returned
Joined == pullResultCode # NoResult

\* the downloads in the order of their declaration
FixedOrder == <<1, 2, 3, 4>>

\* the positions of an order whose download resolved with a nonzero code
Failing(order) == { k \in 1..Len(order) : code[order[k]] # 0 }

\* the code of the first failing download of an order, 0 when none fails
FirstFailureIn(order) ==
    IF Failing(order) = {} THEN 0
    ELSE code[order[CHOOSE k \in Failing(order) :
                        \A m \in Failing(order) : k <= m]]

\* C1: the code pullAllEnvFiles returns is 0 exactly when all four result
\* codes are 0, and otherwise it is the nonzero code with the lowest index
\* in the order legacy-dev, dev, preview, prod.
C1_AggregateFirstNonzero ==
    Joined =>
      /\ (pullResultCode = 0) <=> (\A i \in Tasks : code[i] = 0)
      /\ (\E i \in Tasks : code[i] # 0) =>
           \E i \in Tasks :
             /\ code[i] # 0
             /\ \A j \in Tasks : j < i => code[j] = 0
             /\ pullResultCode = code[i]

\* C1 witness: preview and prod fail with different codes, the two dev
\* downloads succeed, and the code of preview is returned
C1_Witness ==
    /\ Joined
    /\ code[1] = 0 /\ code[2] = 0
    /\ code[3] # 0 /\ code[4] # 0 /\ code[3] # code[4]
    /\ pullResultCode = code[3]

\* C2: the reduced code depends on the codes of the four downloads by their
\* identity only: it is the first failure in the fixed order, whatever the
\* order in which the downloads settled.
C2_CompletionOrderIrrelevant ==
    Joined =>
      /\ Len(settled) = 4
      /\ pullResultCode = FirstFailureIn(FixedOrder)
      /\ pc = "done" /\ pullResultCode # 0 =>
           exitCode = FirstFailureIn(FixedOrder)

\* C2 witness: the download that failed first in time is not the one whose
\* code is returned
C2_Witness ==
    /\ pc = "done"
    /\ Joined
    /\ settled # FixedOrder
    /\ FirstFailureIn(settled) # FirstFailureIn(FixedOrder)
    /\ exitCode = FirstFailureIn(FixedOrder)

\* C3: writeProjectSettings is called exactly when the reduced download code
\* is 0: never before the join or with a nonzero code, and in every run that
\* ends after a join with code 0.
C3_PersistIffAggregateZero ==
    /\ persistCalls \in {0, 1}
    /\ persistCalls = 1 => pullResultCode = 0
    /\ pc = "done" => (persistCalls = 1 <=> pullResultCode = 0)

\* C3 witness: a run that ended with the settings written after four
\* successful downloads
C3_Witness ==
    /\ pc = "done"
    /\ \A i \in Tasks : code[i] = 0
    /\ persistCalls = 1
    /\ settings # NoSettings

\* ensureLink returned Aborted: the lookup and the setup both resolved to
\* not_linked
Aborted == lookup.status = "not_linked" /\ setup.status = "not_linked"

\* nothing of the fan-out or of the persister has happened
NothingSynced ==
    /\ dispatched = <<>>
    /\ \A i \in Tasks : task[i] = "idle"
    /\ files = {}
    /\ persistCalls = 0
    /\ settings = NoSettings

\* C4: when the lookup and the interactive setup both return not_linked,
\* main ends with exit code 0, no envPull is called and the settings file is
\* not written.
C4_AbortedExitsZero ==
    Aborted =>
      /\ pc = "done"
      /\ link = [kind |-> "number", value |-> 0]
      /\ exitCode = 0
      /\ NothingSynced

\* C4 witness: a run that ended after the user aborted the setup
C4_Witness ==
    /\ Aborted
    /\ Len(setupOptions) = 1
    /\ pc = "done"
    /\ exitCode = 0

\* C5 as stated: in a run in which ensureLink returns a link, setupAndLink
\* is not called.
C5_Original_LinkedNeverSetup ==
    link.kind = "link" => setupOptions = <<>> /\ setup = NotCalled

\* C5 as amended: in a run in which the link cache lookup returns linked,
\* setupAndLink is not called, and ensureLink returns the link looked up.
C5_LookupLinkedNeverSetup ==
    lookup.status = "linked" =>
      /\ setupOptions = <<>>
      /\ setup = NotCalled
      /\ link.kind = "link"

\* C5 witness: a finished run on a directory that was linked already
C5_Witness ==
    /\ lookup.status = "linked"
    /\ link.kind = "link"
    /\ pc = "done"
    /\ exitCode = 0

\* C6: when the lookup or the setup reports an error with exit code c, main
\* ends with exit code c, no envPull is called and the settings file is not
\* written.
C6_LinkErrorPassedThrough ==
    \A l \in {lookup, setup} :
      l.status = "error" =>
        /\ pc = "done"
        /\ link = [kind |-> "number", value |-> l.exitCode]
        /\ exitCode = l.exitCode
        /\ NothingSynced

\* C6 witness: the setup failed with a code that is neither of the two codes
\* of parseArgs
C6_Witness ==
    /\ lookup.status = "not_linked"
    /\ setup.status = "error"
    /\ setup.exitCode = 3
    /\ exitCode = 3

\* C7: with a link and at least one download that resolved with a nonzero
\* code, the settings file is never written, and main ends with the first
\* nonzero code in the fixed order.
C7_SyncFailureExitsWithAggregate ==
    (link.kind = "link" /\ \E i \in Tasks : code[i] > 0) =>
      /\ persistCalls = 0
      /\ settings = NoSettings
      /\ pc \in {"awaitAll", "done"}
      /\ pc = "done" =>
           /\ exitCode # 0
           /\ exitCode = pullResultCode
           /\ \E i \in Tasks :
                /\ exitCode = code[i]
                /\ \A j \in 1..(i - 1) : code[j] = 0

\* C7 witness: the directory was linked already, the second development
\* download failed with code 2, the others succeeded
C7_Witness ==
    /\ lookup.status = "linked"
    /\ pc = "done"
    /\ code = <<0, 2, 0, 0>>
    /\ exitCode = 2
    /\ settings = NoSettings

\* getArgs threw
ParseFailed == input.kind = "throws"

\* --help was given
HelpShown == input.kind = "parsed" /\ input.help

\* the run went through the four downloads and the settings write
Succeeded ==
    /\ \A i \in Tasks : code[i] = 0
    /\ persistCalls = 1

\* c is the code that a failing collaborator returned
PassedThrough(c) ==
    \/ lookup.status = "error" /\ lookup.exitCode = c
    \/ setup.status = "error" /\ setup.exitCode = c
    \/ \E i \in Tasks : code[i] # 0 /\ code[i] = c

\* C8 as stated: exit code 0 only after an aborted setup or a successful
\* run, 1 only after a parse failure, 2 only after the usage text, and every
\* other code passed through from a failing collaborator.
C8_Original_ExitCodeCauses ==
    pc = "done" =>
      /\ exitCode = 0 => Aborted \/ Succeeded
      /\ exitCode = 1 => ParseFailed
      /\ exitCode = 2 => HelpShown
      /\ exitCode \notin {0, 1, 2} => PassedThrough(exitCode)

\* C8 as amended: exit code 0 only after an aborted setup or a successful
\* run; a nonzero exit code is the 1 of a parse failure, the 2 of the usage
\* text, or the code of a failing collaborator passed through unchanged,
\* which may itself be 1 or 2.
C8_ExitCodeCauses ==
    pc = "done" =>
      /\ exitCode # Running
      /\ exitCode = 0 => Aborted \/ Succeeded
      /\ exitCode # 0 =>
           \/ exitCode = 1 /\ ParseFailed
           \/ exitCode = 2 /\ HelpShown
           \/ PassedThrough(exitCode)

\* C8 witness: the arguments parsed, the lookup failed with code 1 and main
\* ended with 1
C8_Witness ==
    /\ pc = "done"
    /\ input.kind = "parsed"
    /\ lookup.status = "error"
    /\ lookup.exitCode = 1
    /\ exitCode = 1

\* C9: after --help main ends with 2 and after a parse failure with 1, and
\* in such a run there is no lookup, no setup, no write of the team context,
\* no envPull call and no settings write.
C9_ArgFailureRunsNothing ==
    (ParseFailed \/ HelpShown) =>
      /\ pc \in {"parseArgs", "done"}
      /\ pc = "done" => exitCode = (IF HelpShown THEN 2 ELSE 1)
      /\ lookup = NotCalled
      /\ setup = NotCalled
      /\ setupOptions = <<>>
      /\ link.kind = "none"
      /\ teamWrites = 0
      /\ currentTeam = InitialTeam
      /\ NothingSynced

\* C9 witness: a run that ended after the usage text
C9_Witness ==
    /\ HelpShown
    /\ pc = "done"
    /\ exitCode = 2

\* path.normalize of a path
Normalized(p) == [abs |-> p.abs, segs |-> NormalizeSegs(p.abs, <<>>, p.segs)]

\* the path w/d/r+suffix written out, d being no, one or more directories
Under(w, d, r, suffix) ==
    LET n == Len(r.segs)
    IN  Normalized([abs |-> w.abs,
                    segs |-> w.segs \o d \o SubSeq(r.segs, 1, n - 1)
                               \o << r.segs[n] \o suffix >>])

\* the envPull calls are all made
AllDispatched == pc \in {"awaitAll", "writeProjectSettings", "print"}
                   \/ (pc = "done" /\ Joined)

\* C10: once a project is resolved, exactly four envPull calls are made,
\* each with one destination: Development to w/r, Development to
\* w/.vercel/r.development.local, Preview to w/.vercel/r.preview.local and
\* Production to w/.vercel/r.production.local, r being .env by default.
C10_FourTasksWithDestinations ==
    /\ Len(dispatched) <= 4
    /\ (pc = "done" /\ link.kind = "link") => Joined
    /\ link.kind = "link" =>
         env = (IF input.env = <<>> THEN Name(".env") ELSE input.env[1])
    /\ (link.kind = "link" /\ pc \notin {"setTeam", "pullAllEnvFiles"}) =>
         /\ AllDispatched
         /\ Len(dispatched) = 4
         /\ \A i \in Tasks : Len(dispatched[i].dests) = 1
         /\ [i \in Tasks |-> dispatched[i].target]
              = <<Development, Development, Preview, Production>>
         /\ dispatched[1].dests[1] = Under(cwd, <<>>, env, "")
         /\ dispatched[2].dests[1]
              = Under(cwd, <<".vercel">>, env, ".development.local")
         /\ dispatched[3].dests[1]
              = Under(cwd, <<".vercel">>, env, ".preview.local")
         /\ dispatched[4].dests[1]
              = Under(cwd, <<".vercel">>, env, ".production.local")

\* C10 witness: the four calls of a run in the current directory with a
\* custom file name
C10_Witness ==
    /\ pc = "awaitAll"
    /\ cwd = ProcessCwd
    /\ [i \in Tasks |-> dispatched[i].dests[1].segs]
         = << <<"home", "app", "custom">>,
              <<"home", "app", ".vercel", "custom.development.local">>,
              <<"home", "app", ".vercel", "custom.preview.local">>,
              <<"home", "app", ".vercel", "custom.production.local">> >>
    /\ [i \in Tasks |-> dispatched[i].target]
         = <<Development, Development, Preview, Production>>

\* main is past the await of pullAllEnvFiles
PastSyncing ==
    \/ pc \in {"writeProjectSettings", "print"}
    \/ pc = "done" /\ link.kind = "link"

\* C11: pullAllEnvFiles returns, and main goes on to the settings or ends,
\* only when all four downloads have settled, whatever their codes, also
\* when one had failed while the others were still under way.
C11_JoinWaitsForAll ==
    (Joined \/ PastSyncing) =>
      /\ \A i \in Tasks : task[i] = "settled" /\ code[i] \in PullCodes
      /\ Len(settled) = 4
      /\ {settled[k] : k \in 1..4} = Tasks

\* C11 witness: the first download to settle failed, the three others
\* settled after it, and main ended after the last of them
C11_Witness ==
    /\ pc = "done"
    /\ Joined
    /\ Len(settled) = 4
    /\ code[settled[1]] # 0
    /\ code[settled[4]] = 0

\* C12: setupAndLink is called at most once, and exactly in the runs whose
\* lookup returned not_linked; after a lookup that returned linked
\* ensureLink returns the org and project looked up, and after a lookup that
\* returned an error it returns without a setup call.
C12_SetupExactlyWhenNotLinked ==
    /\ Len(setupOptions) <= 1
    /\ setupOptions # <<>> => lookup.status = "not_linked"
    /\ (setup # NotCalled) <=> (setupOptions # <<>>)
    /\ (lookup.status = "not_linked" /\ pc # "setupAndLink") =>
         Len(setupOptions) = 1
    /\ lookup.status = "linked" =>
         /\ setupOptions = <<>>
         /\ link = [kind |-> "link", org |-> lookup.org,
                    project |-> lookup.project]
    /\ lookup.status = "error" =>
         /\ setupOptions = <<>>
         /\ link = [kind |-> "number", value |-> lookup.exitCode]

\* C12 witness: the lookup returned not_linked and the one setup call,
\* made with autoConfirm, linked the directory
C12_Witness ==
    /\ lookup.status = "not_linked"
    /\ Len(setupOptions) = 1
    /\ setupOptions[1].autoConfirm
    /\ setup.status = "linked"
    /\ link.kind = "link"

\* download i has been started and its promise has not settled
InFlight(i) == task[i] \in {"fetching", "writing"}

\* C13: under fair scheduling every download that has been started settles,
\* also when another download has failed before: no failure cancels a
\* sibling.
C13_EveryTaskCompletes ==
    \A i \in Tasks :
      /\ InFlight(i) ~> (task[i] = "settled")
      /\ (InFlight(i) /\ \E j \in Tasks \ {i} : code[j] > 0)
           ~> (task[i] = "settled" /\ code[i] \in PullCodes)

\* C13 witness: the first download to settle failed, and the last one went
\* on to fetch its variables and to write its destination file
C13_Witness ==
    /\ Len(settled) = 4
    /\ code[settled[1]] # 0
    /\ code[settled[4]] = 0
    /\ dispatched[settled[4]].dests[1] \in files

\* C14: the four envPull calls are made one after the other without an
\* await between them: while the calls are being made no download has gone
\* past its request, and a download goes on only when all four are started;
\* the downloads then settle in any order.
C14_AllStartedBeforeAnyAwaited ==
    /\ pc = "pullAllEnvFiles" =>
         /\ settled = <<>>
         /\ \A i \in Tasks :
              task[i] = (IF i <= Len(dispatched) THEN "fetching" ELSE "idle")
    /\ (\E i \in Tasks : task[i] \in {"writing", "settled"}) =>
         /\ Len(dispatched) = 4
         /\ \A i \in Tasks : task[i] # "idle"

\* C14 witness: the downloads settled in the reverse of the order in which
\* they were started
C14_Witness ==
    /\ pc = "awaitAll"
    /\ settled = <<4, 3, 2, 1>>

\* the team context that line 190 gives for the link that main holds
ExpectedTeam ==
    IF link.org.type = "team" THEN link.org.id ELSE Undefined

\* C15: with a link, client.config.currentTeam is the id of the organization
\* when it is a team and undefined when it is personal, and it is so before
\* the first envPull call.
C15_TeamSetBeforeFirstDispatch ==
    /\ (link.kind = "link" /\ pc # "setTeam") =>
         /\ teamWrites = 1
         /\ currentTeam = ExpectedTeam
    /\ dispatched # <<>> =>
         /\ link.kind = "link"
         /\ teamWrites = 1
         /\ currentTeam = ExpectedTeam
    /\ link.kind # "link" => currentTeam = InitialTeam /\ teamWrites = 0

\* C15 witness: a personal organization, the team context cleared, and the
\* first envPull call just made
C15_Witness ==
    /\ link.kind = "link"
    /\ link.org.type = "user"
    /\ currentTeam = Undefined
    /\ Len(dispatched) = 1

\* main has reached the fan-out
ReachedSyncing ==
    \/ pc \in {"pullAllEnvFiles", "awaitAll"}
    \/ PastSyncing

\* C16: in a run that reaches the fan-out the team context is written once,
\* before the first envPull call, and every download's request is sent with
\* the value that the team context has from then to the end of the run.
C16_TeamWrittenOnceAndStable ==
    /\ teamWrites \in {0, 1}
    /\ ReachedSyncing => teamWrites = 1
    /\ dispatched # <<>> => teamWrites = 1
    /\ \A i \in Tasks :
         IF i <= Len(dispatched)
         THEN teamSeen[i] = currentTeam
         ELSE teamSeen[i] = NotSent

\* C16 witness: a finished fan-out whose four requests were all sent for the
\* team T1
C16_Witness ==
    /\ Joined
    /\ teamWrites = 1
    /\ currentTeam = "T1"
    /\ \A i \in Tasks : teamSeen[i] = "T1" /\ task[i] = "settled"

\* the phase of the orchestrator that a place of main belongs to
Phase(p) ==
    CASE p = "parseArgs" -> "ParsingArgs"
      [] p \in {"getLinkedProject", "setupAndLink", "setTeam"} -> "Resolving"
      [] p \in {"pullAllEnvFiles", "awaitAll"} -> "Syncing"
      [] p \in {"writeProjectSettings", "print"} -> "Persisting"
      [] p = "done" -> "Done"

\* the steps between phases: to the next phase, or to Done
PhaseSteps ==
    { <<"ParsingArgs", "Resolving">>, <<"Resolving", "Syncing">>,
      <<"Syncing", "Persisting">>, <<"Persisting", "Done">>,
      <<"ParsingArgs", "Done">>, <<"Resolving", "Done">>,
      <<"Syncing", "Done">> }

\* C17: main stays in its phase or goes to the next one in the order
\* ParsingArgs, Resolving, Syncing, Persisting, Done, or leaves ParsingArgs,
\* Resolving or Syncing for Done; Persisting is entered from Syncing only.
C17_PhasesInOrder ==
    [][ \/ Phase(pc') = Phase(pc)
        \/ <<Phase(pc), Phase(pc')>> \in PhaseSteps ]_vars

\* C17 witness: a run that went through the setup and all phases to Done
C17_Witness ==
    /\ Phase(pc) = "Done"
    /\ setup.status = "linked"
    /\ Joined
    /\ persistCalls = 1
    /\ exitCode = 0

\* what the link resolver found: the result of the lookup when it is
\* linked, of the setup otherwise
Resolved == IF lookup.status = "linked" THEN lookup ELSE setup

\* the link that main holds is what the resolver found, and the envPull
\* calls, the team context and the settings are made from it
LinkUsedEverywhere ==
    /\ Resolved.status = "linked"
    /\ link.org = Resolved.org
    /\ link.project = Resolved.project
    /\ \A i \in 1..Len(dispatched) : dispatched[i].project = Resolved.project
    /\ teamWrites = 1 => currentTeam = TeamOf(Resolved.org)
    /\ persistCalls = 1 =>
         settings = [org |-> Resolved.org.id, project |-> Resolved.project]

\* C18: the organization and project that main holds are those that the
\* link resolver found and never change; every envPull call gets that
\* project, the team context is set from that organization, and the
\* settings written are that pair.
C18_LinkImmutable ==
    [][ /\ link.kind = "link" => link' = link
        /\ lookup # NotCalled => lookup' = lookup
        /\ setup # NotCalled => setup' = setup
        /\ link'.kind = "link" => LinkUsedEverywhere' ]_vars

\* C18 witness: the setup chose the team T1 and the project P1, the four
\* downloads succeeded and the settings hold {org: T1, project: P1}
C18_Witness ==
    /\ pc = "done"
    /\ lookup.status = "not_linked"
    /\ setup.status = "linked"
    /\ setup.org.id = "T1"
    /\ setup.project = "P1"
    /\ \A i \in Tasks : dispatched[i].project = "P1"
    /\ settings = [org |-> "T1", project |-> "P1"]

\* C19: the destinations of the envPull calls of a run are pairwise
\* distinct, for every working directory and every file name.
C19_DestinationsDistinct ==
    \A i, j \in 1..Len(dispatched) :
      i # j => dispatched[i].dests[1] # dispatched[j].dests[1]

\* C19 witness: the four calls of a run at the root directory with a file
\* name that ends in "..", whose first destination is the root itself
C19_Witness ==
    /\ Len(dispatched) = 4
    /\ cwd = [abs |-> TRUE, segs |-> <<>>]
    /\ env.segs = <<"..", "..">>
    /\ dispatched[1].dests[1] = cwd

\* C20: when every collaborator call returns, every run of main reaches
\* Done and stays there with one exit code, which is set on reaching Done
\* and not before; no run stays at the join or goes back to an earlier place.
C20_EveryRunEnds ==
    /\ <>[](pc = "done" /\ exitCode \in Nat)
    /\ [](exitCode # Running <=> pc = "done")
    /\ [][pc = "done" => pc' = "done" /\ exitCode' = exitCode]_vars

\* C20 witness: a run that went through the setup and the join, where a
\* download failed, and ended with the code of the join
C20_Witness ==
    /\ pc = "done"
    /\ setup.status = "linked"
    /\ Len(settled) = 4
    /\ pullResultCode > 0
    /\ exitCode = pullResultCode

====
